---- MODULE Spec2Model ----
(***************************************************************************)
(* Model of the download phase of cosmico_webinar/commands/download.py:    *)
(* the coordinator (cli, lines 326-360) that loads the queue, pushes one   *)
(* sentinel per worker, starts the workers and joins them, and the         *)
(* DownloaderWorker threads (run, download_file) that pop queue entries    *)
(* and stream each VOD into <output>/<slug>.mp4.                           *)
(*                                                                         *)
(* Sizes are byte counts.  A response body is delivered by iter_content in *)
(* chunks of at most chunk_size bytes.  Writes reach the file when         *)
(* f.write returns.                                                        *)
(***************************************************************************)
EXTENDS Integers, Sequences, FiniteSets, TLC

\* ---------------------------------------------------------------- bounds
\* The queue holds at most MaxQueue items: Len(jobs) + threads <= MaxQueue.
MaxQueue == 4
\* A response body has at most MaxBody bytes.
MaxBody == 2
\* The event list yields at most MaxUrls webinar urls.
MaxUrls == 2

\* ------------------------------------------------------ program constants
\* iter_content(chunk_size=8192), scaled down so that a body of MaxBody
\* bytes spans more than one chunk.
chunk_size == 1

\* _sentinel = object(): a queue item distinct from every job (jobs are
\* identified by their position 1..Len(vod_download_data)).
_sentinel == 0

\* Python's None for task_id (rich TaskIDs are 0, 1, 2, ...).
None == -1

\* local_file.exists() is false
Absent == -1

\* ------------------------------------------------------------ input sets
\* Webinar titles.
Titles == {"Intro to X", "Outro"}

\* slugify(entry["title"]): lower case, runs of other characters become "-".
slugify(t) == CASE t = "Intro to X" -> "intro-to-x"
                [] t = "Outro" -> "outro"

\* output_video = self.output / f"{output_filename}.mp4"
output_video(t) == slugify(t)

Paths == {output_video(t) : t \in Titles}

\* What the remote answers to the streaming GET of one VOD url: either the
\* request raises (connection error), or a response with a status, an
\* optional Content-Length header and a body.
ConnectionError == [kind |-> "raise", status_code |-> 0, has_length |-> FALSE, body |-> 0]

Responses ==
    [kind : {"response"}, status_code : {200}, has_length : BOOLEAN, body : 0..MaxBody]
    \cup [kind : {"response"}, status_code : {404}, has_length : {TRUE}, body : {0}]
    \cup {ConnectionError}

Unknown == [kind |-> "unknown", status_code |-> 0, has_length |-> FALSE, body |-> 0]

\* int(r.headers.get("Content-Length", 0))
remote_file_size(r) == IF r.has_length THEN r.body ELSE 0

\* A skip test that never matches: every job is downloaded again.
never_downloaded(size, r) == FALSE

\* download_file, line 101:
\* local_file.exists() and local_file.stat().st_size == remote_file_size
already_downloaded(size, r) == size # Absent /\ size = remote_file_size(r)

\* A file opened for update instead of "wb": the old content stays.
opened_keeping(size) == IF size = Absent THEN 0 ELSE size

\* download_file, line 109: size of the file right after open(local_file, "wb")
opened_wb(size) == 0

\* A get that returns the head of the queue and leaves it there.
peeked(q) == q

\* run, line 128: the queue after self.queue.get() returned its head
after_get(q) == Tail(q)

\* r.raise_for_status() raises HTTPError for 4xx and 5xx
raises_for_status(r) == r.status_code >= 400

\* len of the next chunk iter_content yields after `received` bytes
next_chunk(r, received) ==
    IF r.body - received > chunk_size THEN chunk_size ELSE r.body - received

Max(a, b) == IF a > b THEN a ELSE b

VARIABLES
    urls,            \* the webinar urls, each with what StreamYard answers for it
    url_idx,         \* number of urls the VOD loop has gone through
    jobs,            \* vod_download_data: sequence of [title, url]
    threads,         \* --threads
    output,          \* the output directory: path -> file size or Absent
    remote,          \* the remote: url -> response it gives (Unknown until asked)
    run_no,          \* which invocation of the program this is
    queue,           \* Queue(): sequence of job indices and sentinels
    unfinished_tasks,\* Queue.unfinished_tasks
    cpc,             \* where the coordinator is
    workers,         \* len(workers): number of workers started
    join_idx,        \* index of the worker the coordinator is joining
    stop_event,      \* _stop_event.is_set()
    wpc,             \* where each worker is
    is_running,      \* DownloaderWorker.is_running
    task_id,         \* DownloaderWorker.task_id
    entry,           \* the entry a worker popped
    resp,            \* the response r a worker is streaming
    received,        \* bytes iter_content has yielded to the worker
    chunk,           \* len of the chunk the worker holds, not yet written
    fpos,            \* position of the worker's open file handle
    tasks,           \* download_progress: the registered task ids
    task_index,      \* download_progress._task_index
    overall,         \* completed count of (generic_progress, task_id)
    \* history of the run, for stating properties
    outcome,         \* job -> how its processing ended
    popped,          \* every item returned by queue.get(), in order
    advanced,        \* item -> number of overall advances made for it
    opened,          \* job -> number of times its target was opened "wb"
    written,         \* job -> bytes written for it
    sentinels_got,   \* worker -> number of sentinels it popped
    pre              \* job -> size of its target file when it was requested

env == <<urls, url_idx, jobs, threads, remote, run_no>>
coord == <<cpc, workers, join_idx>>
wlocal == <<wpc, is_running, task_id, entry, resp, received, chunk, fpos>>
hist == <<outcome, popped, advanced, opened, written, sentinels_got, pre>>
vars == <<urls, url_idx, jobs, threads, output, remote, run_no, queue, unfinished_tasks, cpc,
          workers, join_idx, stop_event, wpc, is_running, task_id, entry, resp,
          received, chunk, fpos, tasks, task_index, overall, outcome, popped,
          advanced, opened, written, sentinels_got, pre>>

K == Len(jobs)
Jobs == 1..K
Workers == 1..threads

RECURSIVE SeqsUpTo(_, _)
SeqsUpTo(S, n) ==
    IF n = 0 THEN {<<>>}
    ELSE LET shorter == SeqsUpTo(S, n - 1)
         IN  shorter \cup {Append(s, x) : s \in {q \in shorter : Len(q) = n - 1}, x \in S}

\* vod_download_data for a list of titles: entry i has the i-th title and
\* its own VOD url (urls are numbered).
VideoEntries(ts) == [i \in 1..Len(ts) |-> [title |-> ts[i], url |-> i]]

\* A queue loaded last job first.
LoadedBackwards(js) == [i \in 1..Len(js) |-> Len(js) + 1 - i]

\* queue = Queue(); for file in vod_download_data: queue.put(file)
LoadedQueue(js) == [i \in 1..Len(js) |-> i]

\* The state of a fresh process right after the queue was loaded
\* (cli, lines 326-331), for a given job list, thread count and directory.
Fresh(js, n) ==
    /\ queue = LoadedQueue(js)
    /\ unfinished_tasks = Len(js)
    /\ cpc = "put"
    /\ workers = 0
    /\ join_idx = 1
    /\ stop_event = FALSE
    /\ wpc = [w \in 1..n |-> "unstarted"]
    /\ is_running = [w \in 1..n |-> FALSE]
    /\ task_id = [w \in 1..n |-> None]
    /\ entry = [w \in 1..n |-> _sentinel]
    /\ resp = [w \in 1..n |-> Unknown]
    /\ received = [w \in 1..n |-> 0]
    /\ chunk = [w \in 1..n |-> 0]
    /\ fpos = [w \in 1..n |-> 0]
    /\ tasks = {}
    /\ task_index = 0
    /\ overall = 0
    /\ outcome = [j \in 1..Len(js) |-> "none"]
    /\ popped = <<>>
    /\ advanced = [j \in 0..Len(js) |-> 0]
    /\ opened = [j \in 1..Len(js) |-> 0]
    /\ written = [j \in 1..Len(js) |-> 0]
    /\ sentinels_got = [w \in 1..n |-> 0]
    /\ pre = [j \in 1..Len(js) |-> Absent]

Init ==
    /\ urls = <<>>
    /\ url_idx = 0
    /\ jobs \in {VideoEntries(ts) : ts \in SeqsUpTo(Titles, MaxQueue - 1)}
    /\ threads \in 1..(MaxQueue - Len(jobs))
    /\ output = [p \in Paths |-> Absent]
    /\ remote = [j \in 1..Len(jobs) |-> Unknown]
    /\ run_no = 1
    /\ Fresh(jobs, threads)

\* ------------------------------------------------------------ coordinator
\* A put that loses the sentinel.
put_nothing(q) == q

\* cli, line 334: the queue after queue.put(_sentinel)
put_sentinel(q) == Append(q, _sentinel)

\* cli, line 334: queue.put(_sentinel)
PutSentinel ==
    /\ cpc = "put"
    /\ queue' = put_sentinel(queue)
    /\ unfinished_tasks' = unfinished_tasks + 1
    /\ cpc' = "start"
    /\ UNCHANGED <<env, output, workers, join_idx, stop_event, wlocal, tasks,
                   task_index, overall, hist>>

\* cli, lines 336-343: construct the worker (is_running = True), start it,
\* append it to workers; after the last one the loop ends and the
\* coordinator enters the try block.
StartWorker ==
    /\ cpc = "start"
    /\ workers' = workers + 1
    /\ wpc' = [wpc EXCEPT ![workers + 1] = "loop"]
    /\ is_running' = [is_running EXCEPT ![workers + 1] = TRUE]
    /\ cpc' = IF workers + 1 = threads THEN "join" ELSE "put"
    /\ UNCHANGED <<env, output, queue, unfinished_tasks, join_idx, stop_event,
                   task_id, entry, resp, received, chunk, fpos, tasks,
                   task_index, overall, hist>>

\* A join that returns without waiting.
join_returns_at_once(w) == TRUE

\* A join that also waits for the queue to be drained, as the queue.join()
\* of lines 345-347 would if it were not commented out.
join_waits_for_drain(w) == wpc[w] = "done" /\ queue = <<>>

\* Thread.join (cli, lines 352 and 360) returns once run has returned.
join_returns(w) == wpc[w] = "done"

\* cli, lines 351-352 and 359-360: worker.join() for each worker in turn;
\* after the last join the coordinator goes on to line 362.
JoinWorker ==
    /\ cpc \in {"join", "interrupted"}
    /\ join_returns(join_idx)
    /\ IF join_idx = threads
         THEN cpc' = "done" /\ join_idx' = join_idx
         ELSE cpc' = cpc /\ join_idx' = join_idx + 1
    /\ UNCHANGED <<env, output, queue, unfinished_tasks, workers, stop_event,
                   wlocal, tasks, task_index, overall, hist>>

\* A set() that has no effect.
event_left_clear == FALSE

\* cli, line 355: _stop_event.is_set() after _stop_event.set()
event_after_set == TRUE

\* cli, lines 353-359: a KeyboardInterrupt raised in the first join loop is
\* caught: the stop event is set and the joins start over.
KeyboardInterrupt ==
    /\ cpc = "join"
    /\ stop_event' = event_after_set
    /\ cpc' = "interrupted"
    /\ join_idx' = 1
    /\ UNCHANGED <<env, output, queue, unfinished_tasks, workers, wlocal,
                   tasks, task_index, overall, hist>>

\* cli, lines 359-360: a KeyboardInterrupt raised in the second join loop is
\* inside the except clause, nothing catches it and it leaves cli.
SecondInterrupt ==
    /\ cpc = "interrupted"
    /\ cpc' = "raised"
    /\ UNCHANGED <<env, output, queue, unfinished_tasks, workers, join_idx,
                   stop_event, wlocal, tasks, task_index, overall, hist>>

\* ----------------------------------------------------------------- worker
\* A loop entry that never sees the stop event.
loop_never_cancelled == FALSE

\* run, line 122: if _stop_event.is_set()
loop_cancelled == stop_event

\* run, lines 119-124: the while test, task_id = None, the stop-event test.
LoopEntry(w) ==
    /\ wpc[w] = "loop"
    /\ IF ~is_running[w]
         THEN /\ wpc' = [wpc EXCEPT ![w] = "done"]
              /\ UNCHANGED <<is_running, task_id>>
         ELSE /\ task_id' = [task_id EXCEPT ![w] = None]
              /\ IF loop_cancelled
                   THEN /\ is_running' = [is_running EXCEPT ![w] = FALSE]
                        /\ wpc' = [wpc EXCEPT ![w] = "done"]
                   ELSE /\ wpc' = [wpc EXCEPT ![w] = "get"]
                        /\ UNCHANGED is_running
    /\ UNCHANGED <<env, output, queue, unfinished_tasks, coord, stop_event,
                   entry, resp, received, chunk, fpos, tasks, task_index,
                   overall, hist>>

\* run, lines 128-133: entry = self.queue.get() blocks while the queue is
\* empty; a sentinel clears is_running and returns through the finally block.
Get(w) ==
    /\ wpc[w] = "get"
    /\ queue # <<>>
    /\ queue' = after_get(queue)
    /\ entry' = [entry EXCEPT ![w] = Head(queue)]
    /\ popped' = Append(popped, Head(queue))
    /\ IF Head(queue) = _sentinel
         THEN /\ is_running' = [is_running EXCEPT ![w] = FALSE]
              /\ sentinels_got' = [sentinels_got EXCEPT ![w] = @ + 1]
              /\ wpc' = [wpc EXCEPT ![w] = "finally"]
         ELSE /\ wpc' = [wpc EXCEPT ![w] = "request"]
              /\ UNCHANGED <<is_running, sentinels_got>>
    /\ UNCHANGED <<env, output, unfinished_tasks, coord, stop_event, task_id,
                   resp, received, chunk, fpos, tasks, task_index, overall,
                   outcome, advanced, opened, written, pre>>

\* An except clause that prints the error and leaves is_running alone.
except_keeps_is_running == FALSE

\* The except clause of run, lines 148-150, for any exception raised in the
\* try block: the error is printed and is_running is cleared.
except_clears_is_running == TRUE

\* download_file, lines 84-110, called from run line 143: add_task, the GET,
\* the size comparison, raise_for_status and open(local_file, "wb").
\* r is the answer of the remote to this job's url.
Request(w, r) ==
    LET j == entry[w]
        p == output_video(jobs[j].title)
    IN
    /\ wpc[w] = "request"
    /\ r \in Responses
    /\ remote[jobs[j].url] \in {Unknown, r}
    /\ remote' = [remote EXCEPT ![jobs[j].url] = r]
    /\ task_id' = [task_id EXCEPT ![w] = task_index]
    /\ tasks' = tasks \cup {task_index}
    /\ task_index' = task_index + 1
    /\ pre' = [pre EXCEPT ![j] = output[p]]
    /\ received' = [received EXCEPT ![w] = 0]
    /\ chunk' = [chunk EXCEPT ![w] = 0]
    /\ fpos' = [fpos EXCEPT ![w] = 0]
    /\ IF r.kind = "raise"
         THEN \* requests.get raised: except clause, then finally
              /\ is_running' = [is_running EXCEPT ![w] = ~except_clears_is_running]
              /\ outcome' = [outcome EXCEPT ![j] = "failed"]
              /\ wpc' = [wpc EXCEPT ![w] = "finally"]
              /\ UNCHANGED <<output, resp, opened>>
         ELSE IF already_downloaded(output[p], r)
         THEN \* "already downloaded": return
              /\ outcome' = [outcome EXCEPT ![j] = "skipped"]
              /\ wpc' = [wpc EXCEPT ![w] = "finally"]
              /\ UNCHANGED <<output, resp, opened, is_running>>
         ELSE IF raises_for_status(r)
         THEN \* HTTPError: except clause, then finally
              /\ is_running' = [is_running EXCEPT ![w] = ~except_clears_is_running]
              /\ outcome' = [outcome EXCEPT ![j] = "failed"]
              /\ wpc' = [wpc EXCEPT ![w] = "finally"]
              /\ UNCHANGED <<output, resp, opened>>
         ELSE \* open(local_file, "wb") truncates; start_task
              /\ output' = [output EXCEPT ![p] = opened_wb(@)]
              /\ opened' = [opened EXCEPT ![j] = @ + 1]
              /\ resp' = [resp EXCEPT ![w] = r]
              /\ wpc' = [wpc EXCEPT ![w] = "stream"]
              /\ UNCHANGED <<is_running, outcome>>
    /\ UNCHANGED <<urls, url_idx, jobs, threads, run_no, queue, unfinished_tasks,
                   coord, stop_event, entry, overall, popped, advanced,
                   written, sentinels_got>>

\* A return that cleans up: the file is deleted when it is closed.
removed_on_return(size) == Absent

\* download_file, line 109: leaving `with open(...) as f` closes the file;
\* what was written stays.
closed_on_return(size) == size

\* A per-chunk test that never sees the stop event.
never_cancelled == FALSE

\* download_file, line 112: if _stop_event.is_set()
chunk_cancelled == stop_event

\* download_file, lines 111-113: iter_content yields the next chunk, or ends
\* (the with blocks close the file and download_file returns); with a chunk
\* in hand the stop event is tested and, when set, download_file returns.
NextChunk(w) ==
    LET j == entry[w]
        p == output_video(jobs[j].title)
    IN
    /\ wpc[w] = "stream"
    /\ IF next_chunk(resp[w], received[w]) = 0
         THEN /\ outcome' = [outcome EXCEPT ![j] = "succeeded"]
              /\ output' = [output EXCEPT ![p] = closed_on_return(@)]
              /\ wpc' = [wpc EXCEPT ![w] = "finally"]
              /\ UNCHANGED <<received, chunk>>
         ELSE /\ received' = [received EXCEPT ![w] = @ + next_chunk(resp[w], received[w])]
              /\ IF chunk_cancelled
                   THEN /\ outcome' = [outcome EXCEPT ![j] = "aborted"]
                        /\ output' = [output EXCEPT ![p] = closed_on_return(@)]
                        /\ wpc' = [wpc EXCEPT ![w] = "finally"]
                        /\ UNCHANGED chunk
                   ELSE /\ chunk' = [chunk EXCEPT ![w] = next_chunk(resp[w], received[w])]
                        /\ wpc' = [wpc EXCEPT ![w] = "write"]
                        /\ UNCHANGED <<outcome, output>>
    /\ UNCHANGED <<env, queue, unfinished_tasks, coord, stop_event,
                   is_running, task_id, entry, resp, fpos, tasks, task_index,
                   overall, popped, advanced, opened, written, sentinels_got, pre>>

\* download_file, lines 115-116: advance the task, f.write(chunk).  The
\* handle writes at its own position; the file grows to cover the write.
WriteChunk(w) ==
    LET j == entry[w]
        p == output_video(jobs[j].title)
    IN
    /\ wpc[w] = "write"
    /\ output' = [output EXCEPT ![p] = Max(@, fpos[w] + chunk[w])]
    /\ fpos' = [fpos EXCEPT ![w] = @ + chunk[w]]
    /\ written' = [written EXCEPT ![j] = @ + chunk[w]]
    /\ chunk' = [chunk EXCEPT ![w] = 0]
    /\ wpc' = [wpc EXCEPT ![w] = "stream"]
    /\ UNCHANGED <<env, queue, unfinished_tasks, coord, stop_event, is_running,
                   task_id, entry, resp, received, tasks, task_index, overall,
                   outcome, popped, advanced, opened, sentinels_got, pre>>

\* A finally block that leaves the task registered.
remove_no_task(ts, id) == ts

\* run, lines 153-154: if self.task_id is not None: remove_task(self.task_id)
remove_task(ts, id) == IF id # None THEN ts \ {id} ELSE ts

\* A finally block that does not mark the item done.
task_not_done(n) == n

\* run, line 164: unfinished_tasks after self.queue.task_done()
task_done(n) == n - 1

\* An overall advance made on every pass through the finally block.
advances_always(w) == TRUE

\* The test of run, line 157, that guards the overall advance.
advances(w) == is_running[w]

\* run, lines 151-164: remove the task, advance the overall progress when
\* is_running, queue.task_done(); then back to the while test, or out of run
\* when the try block returned on a sentinel.
Finally(w) ==
    /\ wpc[w] = "finally"
    /\ tasks' = remove_task(tasks, task_id[w])
    /\ IF advances(w)
         THEN /\ overall' = overall + 1
              /\ advanced' = [advanced EXCEPT ![entry[w]] = @ + 1]
         ELSE UNCHANGED <<overall, advanced>>
    /\ unfinished_tasks' = task_done(unfinished_tasks)
    /\ wpc' = [wpc EXCEPT ![w] = IF entry[w] = _sentinel THEN "done" ELSE "loop"]
    /\ UNCHANGED <<env, output, queue, coord, stop_event, is_running, task_id,
                   entry, resp, received, chunk, fpos, task_index, outcome,
                   popped, opened, written, sentinels_got, pre>>

\* ------------------------------------------------------------------ rerun
\* The program is invoked again on the same job list and output directory
\* once a first invocation has returned without having been interrupted: a
\* new process (cli from line 326 on), the same files and the same remote.
Rerun ==
    /\ cpc = "done"
    /\ ~stop_event
    /\ run_no = 1
    /\ run_no' = 2
    /\ queue' = LoadedQueue(jobs)
    /\ unfinished_tasks' = K
    /\ cpc' = "put"
    /\ workers' = 0
    /\ join_idx' = 1
    /\ stop_event' = FALSE
    /\ wpc' = [w \in Workers |-> "unstarted"]
    /\ is_running' = [w \in Workers |-> FALSE]
    /\ task_id' = [w \in Workers |-> None]
    /\ entry' = [w \in Workers |-> _sentinel]
    /\ resp' = [w \in Workers |-> Unknown]
    /\ received' = [w \in Workers |-> 0]
    /\ chunk' = [w \in Workers |-> 0]
    /\ fpos' = [w \in Workers |-> 0]
    /\ tasks' = {}
    /\ task_index' = 0
    /\ overall' = 0
    /\ outcome' = [j \in Jobs |-> "none"]
    /\ popped' = <<>>
    /\ advanced' = [j \in 0..K |-> 0]
    /\ opened' = [j \in Jobs |-> 0]
    /\ written' = [j \in Jobs |-> 0]
    /\ sentinels_got' = [w \in Workers |-> 0]
    /\ pre' = [j \in Jobs |-> Absent]
    /\ UNCHANGED <<urls, url_idx, jobs, threads, output, remote>>

Next ==
    \/ PutSentinel
    \/ StartWorker
    \/ JoinWorker
    \/ KeyboardInterrupt
    \/ SecondInterrupt
    \/ \E w \in Workers : LoopEntry(w)
    \/ \E w \in Workers : Get(w)
    \/ \E w \in Workers, r \in Responses : Request(w, r)
    \/ \E w \in Workers : NextChunk(w)
    \/ \E w \in Workers : WriteChunk(w)
    \/ \E w \in Workers : Finally(w)

Spec == Init /\ [][Next]_vars

NextRerun == Next \/ Rerun

SpecRerun == Init /\ [][NextRerun]_vars

\* --------------------------------------------------------------- VOD loop
\* What get_webinar_info returns for a webinar: the fields of the JSON
\* document that cli reads (vodUrl may be missing), or no document when the
\* lookup raises.
WebinarInfos ==
    [ok : {TRUE}, isRegistrationEnabled : BOOLEAN, has_vodUrl : BOOLEAN,
     isVodMediaDeleted : BOOLEAN, title : Titles]

LookupRaises ==
    [ok |-> FALSE, isRegistrationEnabled |-> FALSE, has_vodUrl |-> FALSE,
     isVodMediaDeleted |-> FALSE, title |-> "Outro"]

\* A webinar url, as StreamYard behaves for it: the answer to the first
\* lookup, whether the registration goes through, and the answer to the
\* lookup made after the registration.  The parts the code never gets to
\* (registration and second lookup of a webinar without registration or
\* whose first lookup raises, second lookup after a failed registration)
\* are fixed.
Webinars ==
    {u \in [first : WebinarInfos \cup {LookupRaises},
            registers : BOOLEAN,
            second : WebinarInfos \cup {LookupRaises}] :
        /\ (~u.first.ok \/ ~u.first.isRegistrationEnabled) =>
              (u.registers /\ u.second = u.first)
        /\ (u.first.ok /\ u.first.isRegistrationEnabled) => u.first.title = "Outro"
        /\ ~u.registers => u.second = LookupRaises
        /\ u.second.ok => u.second.isRegistrationEnabled = u.first.isRegistrationEnabled}

\* streamyard.get_webinar_info(url), the n-th time cli calls it for u
get_webinar_info(u, n) == IF n = 1 THEN u.first ELSE u.second

\* streamyard.register_webinar(url, data, ...) returns (does not raise)
register_webinar(u) == u.registers

\* A loop that goes on with the data fetched before the registration.
not_refreshed(u) == get_webinar_info(u, 1)

\* cli, line 289: data = streamyard.get_webinar_info(url) after registering
refreshed(u) == get_webinar_info(u, 2)

\* cli, lines 281-305: the body of the try block for webinar u, the i-th
\* url: the entries it appends to vod_download_data, none when a call
\* raises or one of the two tests raises.
vod_entries(u, i) ==
    LET data1 == get_webinar_info(u, 1) IN
    IF ~data1.ok THEN <<>>
    ELSE IF data1.isRegistrationEnabled /\ ~register_webinar(u) THEN <<>>
    ELSE LET data == IF data1.isRegistrationEnabled THEN refreshed(u) ELSE data1 IN
         IF ~data.ok THEN <<>>
         ELSE IF ~data.has_vodUrl THEN <<>>
         ELSE IF data.isVodMediaDeleted THEN <<>>
         ELSE <<[title |-> data.title, url |-> i]>>

\* cli before the VOD loop (line 279): vod_download_data = [], no queue and
\* no worker yet; --threads has its default (line 169).
InitVods ==
    /\ urls \in SeqsUpTo(Webinars, MaxUrls)
    /\ url_idx = 0
    /\ jobs = <<>>
    /\ threads = 2
    /\ output = [p \in Paths |-> Absent]
    /\ remote = <<>>
    /\ run_no = 1
    /\ queue = <<>>
    /\ unfinished_tasks = 0
    /\ cpc = "vods"
    /\ workers = 0
    /\ join_idx = 1
    /\ stop_event = FALSE
    /\ wpc = [w \in 1..2 |-> "unstarted"]
    /\ is_running = [w \in 1..2 |-> FALSE]
    /\ task_id = [w \in 1..2 |-> None]
    /\ entry = [w \in 1..2 |-> _sentinel]
    /\ resp = [w \in 1..2 |-> Unknown]
    /\ received = [w \in 1..2 |-> 0]
    /\ chunk = [w \in 1..2 |-> 0]
    /\ fpos = [w \in 1..2 |-> 0]
    /\ tasks = {}
    /\ task_index = 0
    /\ overall = 0
    /\ outcome = <<>>
    /\ popped = <<>>
    /\ advanced = [j \in {0} |-> 0]
    /\ opened = <<>>
    /\ written = <<>>
    /\ sentinels_got = [w \in 1..2 |-> 0]
    /\ pre = <<>>

\* cli, lines 280-307: one iteration of `for url in urls`, with its except
\* and finally clauses: the entry of the url, if any, is appended and the
\* step's progress advances whatever happened.
VodStep ==
    /\ cpc = "vods"
    /\ url_idx < Len(urls)
    /\ jobs' = jobs \o vod_entries(urls[url_idx + 1], url_idx + 1)
    /\ url_idx' = url_idx + 1
    /\ UNCHANGED <<urls, threads, remote, run_no, output, queue, unfinished_tasks,
                   coord, stop_event, wlocal, tasks, task_index, overall, hist>>

NextVods == VodStep

SpecVods == InitVods /\ [][NextVods]_vars

\* ---------------------------------------------------------------- fairness
\* The steps of the thread of worker w (DownloaderWorker.run).
Worker(w) ==
    /\ w \in Workers
    /\ \/ LoopEntry(w)
       \/ Get(w)
       \/ \E r \in Responses : Request(w, r)
       \/ NextChunk(w)
       \/ WriteChunk(w)
       \/ Finally(w)

\* The steps of the main thread (cli, lines 331-360).
Coordinator == PutSentinel \/ StartWorker \/ JoinWorker

\* Every thread that can take a step eventually takes one, and a request
\* is always answered (finite transfers).  Interrupts are up to the user.
SpecFair ==
    /\ Spec
    /\ WF_vars(Coordinator)
    /\ \A w \in 1..MaxQueue : WF_vars(Worker(w))

\* ------------------------------------------------------------ vocabulary
\* A worker is processing the job it popped (run, lines 135-164).
Processing(w) == wpc[w] \in {"request", "stream", "write", "finally"} /\ entry[w] # _sentinel

\* The worker is inside download_file with the file open.
Streaming(w) == wpc[w] \in {"stream", "write"}

\* Job j has been requested in this run: download_file got past the GET.
Requested(j) == outcome[j] # "none" \/ \E w \in Workers : Streaming(w) /\ entry[w] = j

\* The processing of job j is over: its worker left the finally block.
Finished(j) == outcome[j] # "none" /\ \A w \in Workers : ~(Processing(w) /\ entry[w] = j)

\* Number of times item x was returned by queue.get()
Pops(x) == Cardinality({i \in 1..Len(popped) : popped[i] = x})

\* Number of sentinels the coordinator has put so far
SentinelsPut == Pops(_sentinel) + Cardinality({i \in 1..Len(queue) : queue[i] = _sentinel})

WithOutcome(o) == {j \in Jobs : outcome[j] = o}

DistinctPaths ==
    \A i, j \in Jobs : i # j => output_video(jobs[i].title) # output_video(jobs[j].title)

\* The remote's answer to job j
Answer(j) == remote[jobs[j].url]

HttpFailed(j) ==
    outcome[j] = "failed" /\ Answer(j).kind = "response" /\ raises_for_status(Answer(j))

\* Every worker's thread has ended.
AllTerminated == \A w \in Workers : wpc[w] = "done"

\* ----------------------------------------------------------------- claims
\* No request of this run raised: every job that failed got a response and
\* failed on its status.
NoRequestRaised == \A j \in Jobs : outcome[j] # "none" => Answer(j).kind = "response"

\* C1: exactly-once consumption.  When a run that was not cancelled has
\* completed, every one of the K jobs was dequeued once and has exactly one
\* outcome among skipped, succeeded and failed, the three counts add up to
\* K, and no job is left in the queue.  (Stated for the runs in which the
\* only failures are HTTP statuses, which are to leave the worker alive.)
C1_ExactlyOnceConsumption ==
    (cpc = "done" /\ ~stop_event /\ NoRequestRaised) =>
        /\ \A j \in Jobs : Pops(j) = 1 /\ outcome[j] \in {"skipped", "succeeded", "failed"}
        /\ Cardinality(WithOutcome("skipped")) + Cardinality(WithOutcome("succeeded"))
             + Cardinality(WithOutcome("failed")) = K
        /\ \A i \in 1..Len(queue) : queue[i] = _sentinel

\* C2: a job is dequeued at most once in a run: no job is returned twice by
\* queue.get(), no two workers are processing the same job at the same
\* time, and no worker starts on a job that already has an outcome.
C2_DequeuedAtMostOnce ==
    /\ \A j \in Jobs : Pops(j) <= 1
    /\ \A w, v \in Workers :
         (w # v /\ Processing(w) /\ Processing(v)) => entry[w] # entry[v]
    /\ \A w \in Workers :
         wpc[w] \in {"request", "stream", "write"} => outcome[entry[w]] \in {"none"}
    /\ \A j \in Jobs : outcome[j] # "none" => Pops(j) = 1

\* Two workers are in the middle of the transfers of two jobs.
C2_Witness ==
    \E w, v \in Workers : w # v /\ Streaming(w) /\ Streaming(v) /\ received[w] > 0 /\ received[v] > 0

\* C3: sentinel balance.  The coordinator puts exactly one sentinel per
\* worker, no worker pops more than one sentinel, and in a run without
\* cancellation every worker that has terminated popped exactly one
\* sentinel, so that all W sentinels are consumed when the run returns.
\* (The last two parts are stated for the runs in which the only failures
\* are HTTP statuses, which are to leave the worker alive.)
C3_SentinelBalance ==
    /\ SentinelsPut <= threads
    /\ cpc \in {"join", "interrupted", "done", "raised"} => SentinelsPut = threads
    /\ \A w \in Workers : sentinels_got[w] <= 1
    /\ (~stop_event /\ NoRequestRaised) =>
         \A w \in Workers : wpc[w] = "done" => sentinels_got[w] = 1
    /\ (cpc = "done" /\ ~stop_event /\ NoRequestRaised) => Pops(_sentinel) = threads

\* C4: the coordinator never returns from the download phase while a
\* worker is still active: whenever it has gone past the joins (line 362),
\* after an interrupt during them or without one, every worker's thread has
\* ended.  (A second interrupt, raised inside the except clause, is not
\* caught: cli does not return then, the exception leaves it.)
C4_ReturnsAfterAllWorkers == cpc = "done" => AllTerminated

\* The coordinator returned from a join phase that was interrupted while a
\* worker was in the middle of a transfer.
C4_Witness == cpc = "done" /\ stop_event /\ threads >= 2 /\ \E j \in Jobs : outcome[j] = "aborted"

\* C5: a download request that gets a non-2xx status fails only that job:
\* the worker that processed it keeps is_running set and does not
\* terminate (short of a cancellation) before it dequeues the next item.
C5_HttpFailureKeepsWorker ==
    \A w \in Workers :
        (entry[w] # _sentinel /\ HttpFailed(entry[w])) =>
            /\ wpc[w] \in {"finally", "loop"} => is_running[w]
            /\ wpc[w] = "done" => stop_event

\* C6: a job that failed with a non-2xx status has advanced the overall
\* progress by exactly 1 once its processing is over.
C6_FailureAdvancesOverall ==
    \A j \in Jobs : (HttpFailed(j) /\ Finished(j)) => advanced[j] = 1

\* C7: the overall progress is advanced for a job if and only if its worker
\* reached normal completion of it (a skip counts): a job whose transfer was
\* aborted because the stop event was set does not advance it.
C7_AdvancedIffCompleted ==
    \A j \in Jobs :
        /\ advanced[j] >= 1 => outcome[j] \in {"succeeded", "skipped"}
        /\ (Finished(j) /\ outcome[j] \in {"succeeded", "skipped"}) => advanced[j] = 1

SumAdvanced == LET RECURSIVE Sum(_)
                   Sum(n) == IF n = 0 THEN 0 ELSE advanced[n] + Sum(n - 1)
               IN  Sum(K)

\* C8: progress monotonicity and bound.  In every state of a run with K jobs
\* the overall progress is between 0 and K, it was never advanced for a
\* sentinel nor more than once for the same job, and no step decreases it or
\* changes it by more than 1.
C8_ProgressMonotoneBounded ==
    /\ [](/\ overall \in 0..K
          /\ advanced[_sentinel] = 0
          /\ \A j \in Jobs : advanced[j] \in {0, 1}
          /\ overall = SumAdvanced)
    /\ [][overall' >= overall /\ overall' <= overall + 1]_vars

\* The overall progress of a run with two jobs and two workers reached the
\* job count, every sentinel having gone through the finally block.
C8_Witness == K >= 2 /\ threads >= 2 /\ overall = K /\ AllTerminated /\ Pops(_sentinel) = threads

AllSkippedNothingWritten ==
    \A j \in Jobs : outcome[j] = "skipped" /\ opened[j] = 0 /\ written[j] = 0

\* A second run has completed after an uncancelled first run and was not
\* cancelled itself, on a job list whose target paths are distinct.
SecondRunCompleted == run_no = 2 /\ cpc = "done" /\ ~stop_event /\ DistinctPaths

\* The remote serves job j: it answers the GET with a 2xx status.
Served(j) == Answer(j).kind = "response" /\ ~raises_for_status(Answer(j))

\* C9 as claimed: idempotent rerun.  For every job list with distinct target
\* paths and every unchanging remote that serves the jobs, with or without
\* Content-Length, the second run skips every job and writes nothing.
C9_IdempotentRerun ==
    (SecondRunCompleted /\ \A j \in Jobs : Served(j)) => AllSkippedNothingWritten

\* The remote serves job j and the length the code reads from the headers
\* (Content-Length, 0 when absent) is the length of the body.
SizedOk(j) == Served(j) /\ remote_file_size(Answer(j)) = Answer(j).body

\* C9 as amended: idempotent rerun for a remote that answers every job with
\* a 2xx status and a Content-Length equal to the length of the body (or no
\* Content-Length and an empty body): the second run skips every job, opens
\* no file and writes zero bytes.
C9_IdempotentRerunSized ==
    (SecondRunCompleted /\ \A j \in Jobs : SizedOk(j)) => AllSkippedNothingWritten

\* A second run over two jobs with distinct paths and non-empty bodies of
\* declared length has completed.
C9_Witness ==
    /\ SecondRunCompleted
    /\ K >= 2
    /\ \A j \in Jobs : SizedOk(j) /\ Answer(j).body > 0 /\ outcome[j] = "skipped"

\* The target of job j existed with exactly the remote content length when
\* the job was requested.
Matches(j) ==
    /\ Answer(j).kind = "response"
    /\ pre[j] # Absent
    /\ pre[j] = remote_file_size(Answer(j))

\* No other job of the list has the target path of job j.
SolePath(j) ==
    \A i \in Jobs : i # j => output_video(jobs[i].title) # output_video(jobs[j].title)

\* The target of job j was opened once, truncating, and written from byte
\* 0: the handle is where the written bytes end, and a file no other job
\* targets holds exactly the bytes written for j.
RewrittenFromZero(j) ==
    /\ opened[j] = 1
    /\ outcome[j] # "skipped"
    /\ \A w \in Workers : (Streaming(w) /\ entry[w] = j) => fpos[w] = written[j]
    /\ SolePath(j) => output[output_video(jobs[j].title)] = written[j]

LeftUnchanged(j) == opened[j] = 0 /\ written[j] = 0

\* C10 as claimed: skip policy.  A job that got a response and whose target
\* existed with exactly the remote content length ends as skipped and its
\* file is never opened nor written; in every other case the target is
\* opened truncating and rewritten from byte 0.
C10_SkipPolicy ==
    \A j \in Jobs : (Requested(j) /\ Answer(j).kind = "response") =>
        IF Matches(j)
          THEN outcome[j] = "skipped" /\ LeftUnchanged(j)
          ELSE RewrittenFromZero(j)

\* C10 as amended: as claimed, except that the target is opened truncating
\* and rewritten only when the response has a 2xx status; when the request
\* raises or the status is not 2xx the job fails and its file is left
\* unchanged.
C10_SkipPolicyOn2xx ==
    \A j \in Jobs : Requested(j) =>
        IF Matches(j)
          THEN outcome[j] = "skipped" /\ LeftUnchanged(j)
          ELSE IF Served(j)
          THEN RewrittenFromZero(j)
          ELSE outcome[j] = "failed" /\ LeftUnchanged(j)

\* One job was skipped over a non-empty file of the remote length while
\* another one, whose non-empty file had a different length, was downloaded
\* again.
C10_Witness ==
    \E i, j \in Jobs :
        /\ outcome[i] = "skipped" /\ pre[i] > 0
        /\ outcome[j] = "succeeded" /\ pre[j] > 0 /\ SolePath(j) /\ Finished(j)

\* Job of the transfer worker w is in, and the path it writes.
TargetOf(w) == output_video(jobs[entry[w]].title)

\* C11: cancellation boundedness.  Once the stop event is set, a worker that
\* is in a transfer writes at most one further chunk and then stops that
\* transfer, however many chunks remain: a worker waiting for the next chunk
\* never gets to write it (its transfer ends at that chunk or at the end of
\* the body), a worker that holds a chunk it has already tested writes that
\* one chunk of at most chunk_size bytes and is back waiting, and bytes
\* reach a file only through such a write.
C11_CancellationBounded ==
    [][\A w \in Workers :
          /\ (stop_event /\ wpc[w] = "stream") => wpc'[w] \in {"stream", "finally"}
          /\ (stop_event /\ wpc[w] = "write" /\ wpc'[w] # "write") =>
                /\ wpc'[w] = "stream"
                /\ written'[entry[w]] - written[entry[w]] \in 1..chunk_size
          /\ (stop_event /\ Streaming(w) /\ written'[entry[w]] # written[entry[w]]) =>
                wpc[w] = "write"
          /\ (stop_event /\ ~Streaming(w) /\ entry[w] # _sentinel) =>
                written'[entry[w]] = written[entry[w]]]_vars

\* A transfer was aborted by the stop event part way: a chunk was written,
\* a chunk of the body was never written, and the worker that aborted has
\* terminated.
C11_Witness ==
    /\ stop_event
    /\ \E w \in Workers :
          /\ wpc[w] = "done" /\ entry[w] # _sentinel
          /\ outcome[entry[w]] = "aborted"
          /\ written[entry[w]] >= 1
          /\ Answer(entry[w]).body - written[entry[w]] >= 1

\* cli is over: it went past the joins, or a second interrupt left it.
CliOver == cpc = "done" \/ cpc = "raised"

\* C12: every run eventually returns.  Under fair scheduling and finite
\* transfers, for every job list and thread count, whether jobs succeed,
\* fail on their status or raise, and whether or not the join phase is
\* interrupted, all workers eventually terminate for good, and the join
\* phase of the coordinator completes unless a second interrupt cuts the
\* drain short.
C12_EveryRunReturns ==
    /\ <>[]AllTerminated
    /\ <>CliOver
    /\ [](cpc # "raised") => <>(cpc = "done")

\* A run over two jobs and two workers has returned after one job raised
\* in its request and stopped its worker while the other job succeeded.
C12_Witness ==
    /\ cpc = "done" /\ K >= 2 /\ threads >= 2
    /\ \E i, j \in Jobs :
          /\ outcome[i] = "failed" /\ Answer(i).kind = "raise"
          /\ outcome[j] = "succeeded" /\ written[j] > 0

\* The request of job j raised (no response): an exception that is not an
\* HTTP status.
Raised(j) == outcome[j] = "failed" /\ Answer(j).kind = "raise"

\* C13: an exception other than an HTTP status, raised while a job is
\* processed, stops only the worker that hit it.  That worker has cleared
\* is_running, is on its way out of run or out, and still holds the job as
\* the last item it dequeued; the step in which the exception is handled
\* changes nothing of the coordinator, the queue, the stop event or any
\* sibling; the only exception that reaches the coordinator is an
\* interrupt; and a run that was not cancelled and in which some worker
\* lived to consume a sentinel has dequeued and processed every job.
C13_ExceptionStopsOnlyItsWorker ==
    /\ [](\A j \in Jobs : Raised(j) =>
            \E w \in Workers : /\ entry[w] = j
                                /\ ~is_running[w]
                                /\ wpc[w] \in {"finally", "loop", "done"})
    /\ [](cpc = "raised" => stop_event)
    /\ []((cpc = "done" /\ ~stop_event /\ \E w \in Workers : sentinels_got[w] = 1) =>
            \A j \in Jobs : Pops(j) = 1 /\ outcome[j] # "none")
    /\ [][\A w \in Workers :
            (/\ wpc[w] = "request"
             /\ outcome'[entry[w]] = "failed"
             /\ remote'[jobs[entry[w]].url].kind = "raise") =>
                /\ coord' = coord /\ stop_event' = stop_event /\ queue' = queue
                /\ \A v \in Workers \ {w} :
                      /\ wpc'[v] = wpc[v]
                      /\ is_running'[v] = is_running[v]
                      /\ entry'[v] = entry[v]]_vars

\* An uncancelled run with two workers has returned: the request of one
\* job raised and stopped its worker, a later job was downloaded by the
\* sibling, which then consumed its sentinel.
C13_Witness ==
    /\ cpc = "done" /\ ~stop_event /\ threads = 2
    /\ Pops(_sentinel) = 1
    /\ \E i, j \in Jobs : i < j /\ Raised(i) /\ outcome[j] = "succeeded"

\* C14: no worker ever blocks on an empty queue.  Whenever a live worker is
\* at queue.get() the queue holds at least one item, although the
\* coordinator puts the i-th sentinel and starts the i-th worker in turn
\* rather than putting every sentinel before it starts any worker.
C14_GetNeverBlocks ==
    \A w \in Workers : wpc[w] = "get" => queue # <<>>

\* A worker is at queue.get() and all that is left in the queue is the
\* sentinel put right before the last worker was started, the workers
\* started earlier having consumed the jobs and their own sentinels.
C14_Witness ==
    /\ K >= 1 /\ threads >= 2 /\ workers = threads
    /\ queue = <<_sentinel>>
    /\ wpc[threads] = "get"
    /\ \A w \in 1..(threads - 1) : wpc[w] = "done" /\ sentinels_got[w] = 1
    /\ \A j \in Jobs : Pops(j) = 1

\* The items in the order the coordinator enqueues them: job 1 .. job K,
\* then one sentinel per worker.
EnqueueOrder == [i \in 1..(K + threads) |-> IF i <= K THEN i ELSE _sentinel]

\* C15: items leave the queue in enqueue order.  The sequence of all pops
\* across the workers is a prefix of (job 1 .. job K, sentinel 1 .. sentinel
\* W): no sentinel is consumed while a job is still in the queue, and a
\* worker that has consumed a sentinel did so after all K jobs had been
\* dequeued.
C15_FifoOrder ==
    /\ Len(popped) <= K + threads
    /\ \A i \in 1..Len(popped) : popped[i] = EnqueueOrder[i]
    /\ Pops(_sentinel) > 0 => \A i \in 1..Len(queue) : queue[i] = _sentinel
    /\ \A w \in Workers : sentinels_got[w] > 0 => \A j \in Jobs : Pops(j) = 1

\* Two workers have emptied a queue of two jobs and two sentinels between
\* them, each having processed one of the jobs.
C15_Witness ==
    /\ K = 2 /\ threads = 2
    /\ Len(popped) = K + threads /\ queue = <<>>
    /\ \A w \in Workers : sentinels_got[w] = 1
    /\ \A j \in Jobs : outcome[j] \in {"succeeded", "skipped"}

\* Worker w is between add_task (line 84) and the finally block of the job
\* it is processing.
Tracked(w) == wpc[w] \in {"stream", "write", "finally"} /\ entry[w] # _sentinel

\* C16: per-job progress trackers never leak.  The registered trackers are
\* exactly those of the workers that are inside the processing of a job,
\* one per such worker and no two the same; a worker that has left a job,
\* by whatever path, has no tracker registered; and when all workers have
\* terminated none is registered.
C16_TrackersNeverLeak ==
    /\ tasks = {task_id[w] : w \in {v \in Workers : Tracked(v)}}
    /\ \A w, v \in Workers : (w # v /\ Tracked(w) /\ Tracked(v)) => task_id[w] # task_id[v]
    /\ \A w \in Workers : Tracked(w) => task_id[w] # None
    /\ \A w \in Workers : ~Tracked(w) => task_id[w] \notin tasks
    /\ AllTerminated => tasks = {}

\* All workers have terminated after two trackers were registered, one for
\* a job that failed on its status and one for a transfer that was aborted.
C16_Witness ==
    /\ AllTerminated /\ tasks = {} /\ task_index = 2
    /\ \E i, j \in Jobs : HttpFailed(i) /\ outcome[j] = "aborted"

\* C17: a worker that aborts a transfer because the stop event is set
\* returns without raising and without marking itself failed (is_running
\* is still set in the finally block), and the target file keeps exactly
\* the chunks written so far: the step that aborts changes no file and no
\* byte count, the file was opened once and is never reopened or written
\* for that job again (no resume), and a file no other job targets holds
\* exactly the bytes written for the job.
C17_AbortKeepsWrittenChunks ==
    /\ [](\A w \in Workers :
            (wpc[w] = "finally" /\ entry[w] # _sentinel /\ outcome[entry[w]] = "aborted")
                => is_running[w])
    /\ [](\A j \in Jobs : outcome[j] = "aborted" =>
            /\ opened[j] = 1
            /\ SolePath(j) => output[output_video(jobs[j].title)] = written[j])
    /\ [][\A j \in Jobs :
            /\ (outcome[j] = "none" /\ outcome'[j] = "aborted") =>
                  output' = output /\ written' = written /\ is_running' = is_running
            /\ outcome[j] = "aborted" =>
                  /\ outcome'[j] = "aborted"
                  /\ opened'[j] = opened[j]
                  /\ written'[j] = written[j]]_vars

\* An interrupted run has returned; the one job of a worker was aborted
\* after its first chunk and its file holds that chunk and no more.
C17_Witness ==
    /\ cpc = "done" /\ stop_event
    /\ \E j \in Jobs :
          /\ outcome[j] = "aborted" /\ SolePath(j)
          /\ written[j] = chunk_size
          /\ output[output_video(jobs[j].title)] = chunk_size
          /\ Answer(j).body > chunk_size

\* C18: the stop event is one-shot.  It is set by the coordinator when an
\* interrupt is caught during the join phase, and by no other step: the
\* step that sets it is the coordinator's and changes nothing of any
\* worker; once set it is set in every later state of the run; and it is
\* set exactly when the join phase has been interrupted.
C18_StopEventOneShot ==
    /\ [][/\ stop_event => stop_event'
          /\ (cpc = "join" /\ cpc' = "interrupted") => stop_event'
          /\ stop_event' # stop_event =>
                /\ cpc = "join" /\ cpc' = "interrupted"
                /\ wlocal' = wlocal /\ queue' = queue]_vars
    /\ [](cpc \in {"put", "start", "join"} => ~stop_event)
    /\ [](cpc \in {"interrupted", "raised"} => stop_event)

\* An interrupted run has returned with the event still set, every worker
\* having ended on the event and none on a sentinel.
C18_Witness ==
    /\ cpc = "done" /\ stop_event /\ threads >= 2 /\ K >= 1
    /\ Pops(_sentinel) = 0
    /\ \A w \in Workers : wpc[w] = "done" /\ ~is_running[w]

\* C19: for every job list (titles are not checked for uniqueness) no two
\* workers ever have the same output path open for writing at the same
\* time: each open file handle is on a path no other worker has open.
C19_ExclusiveHandles ==
    \A w, v \in Workers :
        (w # v /\ Streaming(w) /\ Streaming(v)) => TargetOf(w) # TargetOf(v)

\* The info the job of webinar u is to be made from: the one fetched again
\* after the registration when registration is enabled, else the one
\* fetched first; no info when a lookup or the registration raises.
InfoOf(u) ==
    IF ~u.first.ok THEN LookupRaises
    ELSE IF ~u.first.isRegistrationEnabled THEN u.first
    ELSE IF ~u.registers THEN LookupRaises
    ELSE u.second

\* Webinar u resolves to a live VOD.
LiveVod(u) == InfoOf(u).ok /\ InfoOf(u).has_vodUrl /\ ~InfoOf(u).isVodMediaDeleted

\* The indices of the first n urls that resolve to a live VOD.
LiveUpTo(n) == {i \in 1..n : LiveVod(urls[i])}

\* C20: the job list handed to the pipeline holds, in url order, exactly
\* one job for each webinar url whose info (fetched again after the
\* registration when registration is enabled) has a vodUrl and is not
\* marked isVodMediaDeleted, with the title and the VOD url of that info; a
\* url whose lookup or registration raises, that lacks vodUrl or whose
\* media was deleted adds no job, and the loop goes on to the urls after
\* it.  Stated after every iteration of the loop, for the urls gone through.
C20_JobListIsLiveVods ==
    /\ [](cpc = "vods" =>
            /\ url_idx \in 0..Len(urls)
            /\ Len(jobs) = Cardinality(LiveUpTo(url_idx))
            /\ \A k \in 1..Len(jobs) :
                  /\ jobs[k].url \in LiveUpTo(url_idx)
                  /\ jobs[k].title = InfoOf(urls[jobs[k].url]).title
            /\ \A k, l \in 1..Len(jobs) : k < l => jobs[k].url < jobs[l].url)
    /\ [][cpc = "vods" => url_idx' = url_idx + 1]_vars
    /\ [](cpc = "vods" => ENABLED VodStep \/ url_idx = Len(urls))

\* The loop has gone through two urls: the lookup of the first raised, the
\* second needed a registration and only the info fetched after it has the
\* vodUrl; the list holds the one job of the second url.
C20_Witness ==
    /\ cpc = "vods" /\ Len(urls) = 2 /\ url_idx = 2
    /\ ~urls[1].first.ok
    /\ urls[2].first.isRegistrationEnabled /\ ~urls[2].first.has_vodUrl
    /\ Len(jobs) = 1 /\ jobs[1].url = 2 /\ jobs[1].title = "Intro to X"

\* Worker w has never dequeued anything in this run.
NeverPopped(w) == entry[w] = _sentinel /\ sentinels_got[w] = 0

\* C21: after the stop event is set each worker dequeues at most one
\* further item.  A worker that is at its loop entry with the event set
\* terminates there: its step pops nothing, advances no progress, marks no
\* task done and touches no file; it never gets to queue.get() again.  An
\* item is only ever popped by a worker that is at queue.get(), that is,
\* one that passed the loop-entry test before, and that pop takes it away
\* from queue.get() for the rest of the run.
C21_AtMostOnePopAfterStop ==
    /\ [][\A w \in Workers :
            /\ (stop_event /\ wpc[w] = "loop") => wpc'[w] \in {"loop", "done"}
            /\ (stop_event /\ wpc[w] = "loop" /\ wpc'[w] = "done") =>
                  /\ popped' = popped /\ queue' = queue
                  /\ overall' = overall /\ advanced' = advanced
                  /\ unfinished_tasks' = unfinished_tasks
                  /\ output' = output /\ opened' = opened /\ written' = written
                  /\ ~is_running'[w]
            /\ (stop_event /\ wpc[w] # "get") => wpc'[w] # "get"
            /\ (entry'[w] # entry[w] \/ sentinels_got'[w] # sentinels_got[w]) =>
                  wpc[w] = "get" /\ wpc'[w] # "get" /\ Len(popped') = Len(popped) + 1]_vars
    /\ [][Len(popped') # Len(popped) =>
            \E w \in Workers : wpc[w] = "get" /\ wpc'[w] # "get"]_vars

\* An interrupted run has returned with items left in the queue: one
\* worker terminated at its first loop entry without ever popping, while
\* another, already past the test, popped a job, opened its file and
\* aborted the transfer at the first chunk.
C21_Witness ==
    /\ cpc = "done" /\ stop_event /\ queue # <<>>
    /\ \E v \in Workers : wpc[v] = "done" /\ NeverPopped(v)
    /\ \E w \in Workers :
          /\ entry[w] # _sentinel
          /\ outcome[entry[w]] = "aborted" /\ written[entry[w]] = 0

\* Worker w holds an item it dequeued and has not marked done yet.
Holding(w) == wpc[w] \in {"request", "stream", "write", "finally"}

\* C22: queue accounting stays balanced.  The unfinished-task count of the
\* queue is always the number of items still in the queue plus the number
\* of items being processed (dequeued, not yet marked done), and never
\* negative.  An item is marked done only by a worker that holds one, in
\* the step that ends its processing, once and by one; the step that
\* dequeues leaves the count alone and makes the worker hold the item; and
\* a worker stops holding an item only through that marking, before it
\* dequeues again or terminates.
C22_QueueAccounting ==
    /\ [](/\ unfinished_tasks = Len(queue) + Cardinality({w \in Workers : Holding(w)})
          /\ unfinished_tasks >= 0)
    /\ [][/\ unfinished_tasks' < unfinished_tasks =>
               /\ unfinished_tasks' = unfinished_tasks - 1
               /\ \E w \in Workers : wpc[w] = "finally" /\ wpc'[w] \in {"loop", "done"}
          /\ \A w \in Workers :
               /\ (wpc[w] = "finally" /\ wpc'[w] # "finally") =>
                     unfinished_tasks' = unfinished_tasks - 1
               /\ (wpc[w] = "get" /\ wpc'[w] # "get") =>
                     Holding(w)' /\ unfinished_tasks' = unfinished_tasks
               /\ (Holding(w) /\ ~Holding(w)') => wpc[w] = "finally"]_vars

\* A run has returned with the accounting balanced on a queue that was not
\* drained: a worker stopped by a failed job marked it done and left a
\* later job and the sentinels behind.
C22_Witness ==
    /\ cpc = "done" /\ ~stop_event /\ AllTerminated
    /\ Len(queue) >= 2 /\ unfinished_tasks = Len(queue)
    /\ \E j \in Jobs : outcome[j] = "failed"
    /\ \E j \in Jobs : Pops(j) = 0
====
